---------------------------- MODULE Spec2Model ----------------------------
(***************************************************************************)
(* Telemetry recorders of aksingh842/testing_Script_js.                    *)
(*                                                                         *)
(*   src/monitor.py               get_hwinfo_data (shared-memory decoder)  *)
(*                                and main (recorder loop, csv_headers)    *)
(*   src/monitor_linux_backup.py  get_gpu_stats_qmassa (probe adapter)     *)
(*                                and monitor (recorder loop, all_columns) *)
(*                                                                         *)
(* Strings are TLA+ strings; a Python dict is the sequence of its          *)
(* <<key, value>> pairs in insertion order (list(d.keys()) depends on it). *)
(* Python values are tagged records: PyStr(s), PyInt(n) and PyFloat(c),    *)
(* where c is the value in hundredths.                                     *)
(***************************************************************************)
EXTENDS Integers, Sequences, FiniteSets, TLC

(***************************************************************************)
(* Bounds of the model.                                                    *)
(***************************************************************************)
MaxElems == 2
MaxTicks == 3

(***************************************************************************)
(* Python values and dicts.                                                *)
(***************************************************************************)
PyStr(s) == [t |-> "str", s |-> s]
PyInt(n) == [t |-> "int", n |-> n]
PyFloat(c) == [t |-> "float", c |-> c]

EmptyDict == << >>

DictKeys(d) == [i \in 1..Len(d) |-> d[i][1]]

DictHas(d, k) == \E i \in 1..Len(d) : d[i][1] = k

DictGet(d, k, default) ==
    IF DictHas(d, k)
    THEN d[CHOOSE i \in 1..Len(d) : d[i][1] = k][2]
    ELSE default

\* d[k] = v : an existing key keeps its position, a new key goes last
DictSet(d, k, v) ==
    IF DictHas(d, k)
    THEN [i \in 1..Len(d) |-> IF d[i][1] = k THEN <<k, v>> ELSE d[i]]
    ELSE Append(d, <<k, v>>)

RECURSIVE DictUpdate(_, _)
\* d.update(e)
DictUpdate(d, e) ==
    IF e = << >> THEN d
    ELSE DictUpdate(DictSet(d, Head(e)[1], Head(e)[2]), Tail(e))

SeqToSet(s) == {s[i] : i \in 1..Len(s)}

IsPrefix(s, t) == Len(s) <= Len(t) /\ SubSeq(t, 1, Len(s)) = s

(***************************************************************************)
(* src/monitor.py : constants                                              *)
(***************************************************************************)
TARGET_KEYWORDS ==
    << "GPU D3D", "GPU Video", "GT Cores Power", "GPU Clock", "GPU Busy",
       "Framerate", "CPU Package Power", "Total CPU Usage", "IA Cores Power",
       "CPU GT Cores", "CPU Package", "Drive Temperature", "Charge Level",
       "Remaining Capacity", "Battery Voltage", "NPU" >>

\* mmap.mmap(-1, 500000, ...)
MapSize == 500000

\* ctypes.sizeof(HWiNFO_Header), _pack_ = 1 : 4 + 4 + 4 + 8 + 6 * 4
HeaderSize == 44

\* the byte 0x00 of a c_char array, written "#" in the raw fields of the model
NUL == "#"

\* k in label
Contains(label, k) ==
    \E i \in 1..(Len(label) - Len(k) + 1) : SubSeq(label, i, i + Len(k) - 1) = k

\* reading a (c_char * n) field of a ctypes structure: the bytes before the
\* first NUL
CharArrayValue(raw) ==
    IF \E i \in 1..Len(raw) : SubSeq(raw, i, i) = NUL
    THEN LET first == CHOOSE i \in 1..Len(raw) :
                         /\ SubSeq(raw, i, i) = NUL
                         /\ \A j \in 1..(i - 1) : SubSeq(raw, j, j) # NUL
         IN SubSeq(raw, 1, first - 1)
    ELSE raw

RECURSIVE StripNul(_)
\* s.strip('\x00')
StripNul(s) ==
    IF s = "" THEN s
    ELSE IF SubSeq(s, 1, 1) = NUL THEN StripNul(SubSeq(s, 2, Len(s)))
    ELSE IF SubSeq(s, Len(s), Len(s)) = NUL THEN StripNul(SubSeq(s, 1, Len(s) - 1))
    ELSE s

\* ctypes.sizeof of the structure selected for a declared element size; 0 when
\* the size selects no structure.  HWiNFO_Element_320 is 12 + 128 + 128 + 16 +
\* 32 = 316 bytes, HWiNFO_Element_460 adds 140 bytes of padding.
StructSize(element_size) ==
    CASE element_size = 460 -> 456
      [] element_size = 320 -> 316
      [] element_size = 252 -> 252
      [] OTHER -> 0

\* what the region holds where the producer wrote nothing: zero bytes
ZeroElement == [tReading |-> 0, szLabelUser |-> "", szUnit |-> "", Value |-> PyFloat(0)]

ElementAt(block, i) ==
    IF i <= Len(block.elems) THEN block.elems[i] ELSE ZeroElement

\* the return values of get_hwinfo_data; closed tells whether shm.close() ran
HwNone(closed) == [ret |-> "None", metrics |-> EmptyDict, closed |-> closed]
HwMetrics(m) == [ret |-> "dict", metrics |-> m, closed |-> TRUE]

\* the body of the for loop, lines 166-176
FilterElementFirstWins(metrics, element) ==
    LET label == StripNul(CharArrayValue(element.szLabelUser))
        unit == StripNul(CharArrayValue(element.szUnit))
        full_key == IF unit # "" THEN label \o " [" \o unit \o "]" ELSE label
    IN IF element.tReading # 0 /\ label # ""
          /\ (\E k \in 1..Len(TARGET_KEYWORDS) : Contains(label, TARGET_KEYWORDS[k]))
          /\ ~DictHas(metrics, full_key)
       THEN DictSet(metrics, full_key, element.Value)
       ELSE metrics

FilterElement(metrics, element) ==
    LET label == StripNul(CharArrayValue(element.szLabelUser))
        unit == StripNul(CharArrayValue(element.szUnit))
        full_key == IF unit # "" THEN label \o " [" \o unit \o "]" ELSE label
    IN IF element.tReading # 0 /\ label # ""
          /\ (\E k \in 1..Len(TARGET_KEYWORDS) : Contains(label, TARGET_KEYWORDS[k]))
       THEN DictSet(metrics, full_key, element.Value)
       ELSE metrics

RECURSIVE ReadElements(_, _, _, _)
\* for _ in range(header.NumReadingElements): shm.read returns the bytes left
\* in the region, at most element_size; from_buffer_copy raises ValueError on
\* fewer bytes than the structure has, and the outer except returns None.
ReadElements(block, i, pos, metrics) ==
    IF i > block.NumReadingElements THEN HwMetrics(metrics)
    ELSE LET element_size == block.SizeOfReadingElement
             got == IF MapSize - pos < element_size THEN MapSize - pos ELSE element_size
         IN IF got < StructSize(element_size)
            THEN HwNone(FALSE)
            ELSE ReadElements(block, i + 1, pos + got,
                              FilterElement(metrics, ElementAt(block, i)))

GetHwinfoDataNoSizeCheck(block) ==
    IF ~block.mappable THEN HwNone(FALSE)
    ELSE IF block.Signature # "HWiS" THEN HwNone(TRUE)
    ELSE IF block.OffsetOfReadingSection > MapSize THEN HwNone(FALSE)
    ELSE ReadElements(block, 1, block.OffsetOfReadingSection, EmptyDict)

\* get_hwinfo_data(); block is what the shared memory holds at the call
get_hwinfo_data(block) ==
    IF ~block.mappable THEN HwNone(FALSE)
    ELSE IF block.Signature # "HWiS" THEN HwNone(TRUE)
    ELSE IF StructSize(block.SizeOfReadingElement) = 0 THEN HwNone(TRUE)
    ELSE IF block.OffsetOfReadingSection > MapSize THEN HwNone(FALSE)
    ELSE ReadElements(block, 1, block.OffsetOfReadingSection, EmptyDict)

(***************************************************************************)
(* Inputs of the decoder.                                                  *)
(***************************************************************************)
ElementPool ==
    { [tReading |-> 1, szLabelUser |-> "CPU Package Power", szUnit |-> "W", Value |-> PyFloat(1250)],
      [tReading |-> 0, szLabelUser |-> "NPU Clock", szUnit |-> "MHz", Value |-> PyFloat(900)],
      [tReading |-> 1, szLabelUser |-> "npu clock", szUnit |-> "MHz", Value |-> PyFloat(800)],
      [tReading |-> 1, szLabelUser |-> "NPU", szUnit |-> "W", Value |-> PyFloat(300)],
      [tReading |-> 2, szLabelUser |-> "NPU", szUnit |-> "W", Value |-> PyFloat(700)],
      [tReading |-> 1, szLabelUser |-> "NPU [W]", szUnit |-> "", Value |-> PyFloat(500)],
      [tReading |-> 1, szLabelUser |-> "Fan#NPU", szUnit |-> "RPM", Value |-> PyFloat(100)],
      [tReading |-> 1, szLabelUser |-> "", szUnit |-> "W", Value |-> PyFloat(200)] }

ElementSeqs == UNION {[1..n -> ElementPool] : n \in 0..MaxElems}

Signatures == {"HWiS", "HWiN"}
ElementSizes == {460, 320, 252, 316}
Offsets == {HeaderSize, MapSize - 456, MapSize + 1}

Blocks ==
    { [mappable |-> TRUE, Signature |-> sig, SizeOfReadingElement |-> sz,
       OffsetOfReadingSection |-> off, NumReadingElements |-> n, elems |-> es] :
         sig \in Signatures, sz \in ElementSizes, off \in Offsets,
         n \in 0..(MaxElems + 1), es \in ElementSeqs }
    \cup
    { [mappable |-> FALSE, Signature |-> "", SizeOfReadingElement |-> 0,
       OffsetOfReadingSection |-> 0, NumReadingElements |-> 0, elems |-> << >>] }

(***************************************************************************)
(* State.                                                                  *)
(*   block, hw_ret, d_pc   one call of get_hwinfo_data: the region's       *)
(*                         content, the value returned, the call's position*)
(*   perturbed, gpu_ret, x_pc   one call of get_gpu_stats_qmassa: what     *)
(*                         differs from the full snapshot, the value       *)
(*                         returned, the call's position                   *)
(*   script                the program that runs                           *)
(*   pc, tick              position in the recorder loop, ticks started    *)
(*   run_id                the --run-id argument ("" when not given)       *)
(*   out_file              the CSV on disk: exists, lines (lists of fields)*)
(*   hist                  per tick: what the tick printed and wrote       *)
(*   exit_status           process exit status, -1 while running           *)
(*   csv_headers, data, row_data             locals of main (monitor.py)   *)
(*   has_gpu_monitor, gpu_temp_file, qmassa_error_shown, first_row,        *)
(*   all_columns, row                        locals of monitor             *)
(*   result, temp_file     the outcome of the last subprocess.run and the  *)
(*                         probe's output file on disk                     *)
(***************************************************************************)
VARIABLES block, hw_ret, d_pc, perturbed, gpu_ret, x_pc,
          script, pc, tick, run_id, out_file, hist, exit_status,
          csv_headers, data, row_data,
          has_gpu_monitor, gpu_temp_file, qmassa_error_shown, first_row, all_columns, row,
          result, temp_file

dvars == <<block, hw_ret, d_pc, perturbed, gpu_ret, x_pc>>
envvars == <<script, pc, tick, run_id, out_file, hist, exit_status>>
mainvars == <<csv_headers, data, row_data>>
monvars == <<has_gpu_monitor, gpu_temp_file, qmassa_error_shown, first_row, all_columns, row,
             result, temp_file>>

vars == <<dvars, envvars, mainvars, monvars>>

None == <<"None">>

NoFile == [exists |-> FALSE, lines |-> << >>]

\* what a previous run left at the output path
PriorFile == [exists |-> TRUE, lines |-> << <<"Run_ID", "Time", "old">>, <<"N/A", "0", "1">> >>]

\* open(path, 'a') : create or keep what the file holds
OpenWAppendMode(f) == [exists |-> TRUE, lines |-> f.lines]

\* open(path, 'w') : create or truncate
OpenW(f) == [exists |-> TRUE, lines |-> << >>]

\* writing one line of fields through a file opened in 'w' or 'a' mode
WriteLine(f, fields) == [exists |-> TRUE, lines |-> Append(f.lines, fields)]

RECURSIVE Digits(_)
Digits(n) == IF n < 10 THEN ToString(n) ELSE Digits(n \div 10) \o ToString(n % 10)

\* str(value) as the csv writer renders a field: a str as it is, an int in
\* decimal, a float by its shortest repr (hundredths c, c >= 0)
CsvField(v) ==
    CASE v.t = "str" -> v.s
      [] v.t = "int" -> Digits(v.n)
      [] v.t = "float" ->
            Digits(v.c \div 100) \o "." \o
            (IF v.c % 10 = 0 THEN Digits((v.c % 100) \div 10)
             ELSE Digits((v.c % 100) \div 10) \o Digits(v.c % 10))

\* csv.DictWriter(f, fieldnames).writerow(rowdict) with restval '' : one field
\* per fieldname, the row's value or ''
DictWriterRowNoRestval(fieldnames, rowdict) ==
    LET present == SelectSeq(fieldnames, LAMBDA k : DictHas(rowdict, k))
    IN [i \in 1..Len(present) |-> CsvField(DictGet(rowdict, present[i], PyStr("")))]

DictWriterRow(fieldnames, rowdict) ==
    [i \in 1..Len(fieldnames) |-> CsvField(DictGet(rowdict, fieldnames[i], PyStr("")))]

\* datetime.now() : the clock is read once per tick
Timestamp(n) == "T" \o Digits(n)

HistEntry == [failed |-> FALSE, printed |-> 0, truncs |-> 0, headers |-> 0, rows |-> 0,
              first |-> FALSE]

Last(h) == h[Len(h)]

SetLast(h, e) == [h EXCEPT ![Len(h)] = e]

(***************************************************************************)
(* src/monitor.py : main                                                   *)
(***************************************************************************)
Elem(label, unit, c) == [tReading |-> 1, szLabelUser |-> label, szUnit |-> unit, Value |-> PyFloat(c)]

MkBlock(sig, es) ==
    [mappable |-> TRUE, Signature |-> sig, SizeOfReadingElement |-> 460,
     OffsetOfReadingSection |-> HeaderSize, NumReadingElements |-> Len(es), elems |-> es]

\* what the shared memory may hold at a tick of main
TickBlocks ==
    { MkBlock("HWiN", << Elem("NPU", "W", 300) >>),
      MkBlock("HWiS", << Elem("CPU Package Power", "W", 1250) >>),
      MkBlock("HWiS", << Elem("NPU", "W", 300) >>),
      MkBlock("HWiS", << Elem("CPU Package Power", "W", 1300), Elem("NPU", "W", 350) >>),
      MkBlock("HWiS", << Elem("Fan", "RPM", 90000) >>) }

\* line 219: clean_row = {k: row_data.get(k, '') for k in csv_headers}
CleanRow(headers, rowdict) ==
    [i \in 1..Len(headers) |-> <<headers[i], DictGet(rowdict, headers[i], PyStr(""))>>]

\* if data is not None:
TruthyNotNone(d) == d.ret = "dict"

\* if data:
Truthy(d) == d.ret = "dict" /\ d.metrics # EmptyDict

MainInit ==
    /\ csv_headers = None
    /\ data = HwNone(FALSE)
    /\ row_data = EmptyDict

\* lines 201-206 and 246-247: read the clock and the shared memory, build
\* row_data or print the read error
MainRead ==
    /\ script = "monitor.py"
    /\ pc = "read"
    /\ \E b \in TickBlocks :
         LET d == get_hwinfo_data(b)
         IN /\ data' = d
            /\ IF Truthy(d)
               THEN /\ row_data' = DictUpdate(
                                     << <<"Run_ID", PyStr(IF run_id # "" THEN run_id ELSE "N/A")>>,
                                        <<"Time", PyStr(Timestamp(tick))>> >>, d.metrics)
                    /\ pc' = IF csv_headers = None THEN "open_w" ELSE "append"
                    /\ hist' = SetLast(hist, [Last(hist) EXCEPT !.failed = FALSE])
               ELSE /\ row_data' = row_data
                    /\ pc' = "sleep"
                    /\ hist' = SetLast(hist, [Last(hist) EXCEPT !.failed = (d.ret = "None"),
                                                                !.printed = @ + 1])
    /\ UNCHANGED <<dvars, script, tick, run_id, out_file, exit_status, csv_headers, monvars>>

\* lines 209-211: csv_headers = list(row_data.keys()); open(LOG_FILE, 'w')
MainOpenW ==
    /\ script = "monitor.py"
    /\ pc = "open_w"
    /\ csv_headers' = DictKeys(row_data)
    /\ out_file' = OpenW(out_file)
    /\ hist' = SetLast(hist, [Last(hist) EXCEPT !.truncs = @ + 1, !.first = TRUE])
    /\ pc' = "writeheader"
    /\ UNCHANGED <<dvars, script, tick, run_id, exit_status, data, row_data, monvars>>

\* lines 212-213: writer.writeheader(), and the file is closed
MainWriteHeader ==
    /\ script = "monitor.py"
    /\ pc = "writeheader"
    /\ out_file' = WriteLine(out_file, csv_headers)
    /\ hist' = SetLast(hist, [Last(hist) EXCEPT !.headers = @ + 1])
    /\ pc' = "append"
    /\ UNCHANGED <<dvars, script, tick, run_id, exit_status, mainvars, monvars>>

\* lines 216-243: clean_row over csv_headers is appended, the summary printed
MainAppend ==
    /\ script = "monitor.py"
    /\ pc = "append"
    /\ out_file' = WriteLine(out_file, DictWriterRow(csv_headers, CleanRow(csv_headers, row_data)))
    /\ hist' = SetLast(hist, [Last(hist) EXCEPT !.rows = @ + 1])
    /\ pc' = "sleep"
    /\ UNCHANGED <<dvars, script, tick, run_id, exit_status, mainvars, monvars>>

\* line 249: time.sleep(5), then the next iteration
MainSleep ==
    /\ script = "monitor.py"
    /\ pc = "sleep"
    /\ tick < MaxTicks
    /\ tick' = tick + 1
    /\ hist' = Append(hist, HistEntry)
    /\ pc' = "read"
    /\ UNCHANGED <<dvars, script, run_id, out_file, exit_status, mainvars, monvars>>

\* lines 251-252: KeyboardInterrupt is raised wherever the loop is
MainInterrupt ==
    /\ script = "monitor.py"
    /\ pc \in {"read", "open_w", "writeheader", "append", "sleep"}
    /\ pc' = "stopped"
    /\ exit_status' = 0
    /\ UNCHANGED <<dvars, script, tick, run_id, out_file, hist, mainvars, monvars>>

\* open or write raises OSError: main catches only KeyboardInterrupt
MainIOError ==
    /\ script = "monitor.py"
    /\ pc \in {"open_w", "writeheader", "append"}
    /\ pc' = "crashed"
    /\ exit_status' = 1
    /\ UNCHANGED <<dvars, script, tick, run_id, out_file, hist, mainvars, monvars>>

MainNext ==
    \/ MainRead
    \/ MainOpenW
    \/ MainWriteHeader
    \/ MainAppend
    \/ MainSleep
    \/ MainInterrupt
    \/ MainIOError

(***************************************************************************)
(* src/monitor_linux_backup.py : JSON values and string helpers            *)
(***************************************************************************)
PyList(items) == [t |-> "list", items |-> items]
PyDict(d) == [t |-> "dict", d |-> d]
PyNull == [t |-> "null"]

\* bool(v)
PyTruthy(v) ==
    CASE v.t = "str" -> v.s # ""
      [] v.t = "int" -> v.n # 0
      [] v.t = "float" -> v.c # 0
      [] v.t = "list" -> v.items # << >>
      [] v.t = "dict" -> v.d # << >>
      [] OTHER -> FALSE

\* isinstance(v, (int, float))
IsNumber(v) == v.t \in {"int", "float"}

\* a number in hundredths
Centi(v) == IF v.t = "int" THEN v.n * 100 ELSE v.c

\* num / den rounded to the nearest integer, ties to even (num >= 0, den > 0)
RoundHalfEven(num, den) ==
    LET q == num \div den
        r == num % den
    IN IF 2 * r < den THEN q
       ELSE IF 2 * r > den THEN q + 1
       ELSE IF q % 2 = 0 THEN q ELSE q + 1

\* round(v / (1024 * 1024), 2)
ToMB(v) == PyFloat(RoundHalfEven(Centi(v), 1024 * 1024))

\* round(v, 2) : the model's numbers have two decimals
Round2(v) == v

\* round(v, 1); a float that prints as a decimal tie (45.55) is rounded by
\* its binary value, so the inputs of the model have no such ties
Round1(v) == IF v.t = "int" THEN v ELSE PyFloat(10 * RoundHalfEven(v.c, 10))

\* int(v)
ToInt(v) == PyInt(Centi(v) \div 100)

UpperChars == "ABCDEFGHIJKLMNOPQRSTUVWXYZ"
LowerChars == "abcdefghijklmnopqrstuvwxyz"
AsciiChars == " #-./0123456789:ABCDEFGHIJKLMNOPQRSTUVWXYZ[]_abcdefghijklmnopqrstuvwxyz"

\* ord(c) up to an order-preserving renumbering
Ord(c) == CHOOSE i \in 1..Len(AsciiChars) : SubSeq(AsciiChars, i, i) = c

RECURSIVE StrLess(_, _)
\* a < b on str
StrLess(a, b) ==
    IF a = "" THEN b # ""
    ELSE IF b = "" THEN FALSE
    ELSE IF SubSeq(a, 1, 1) = SubSeq(b, 1, 1) THEN StrLess(Tail(a), Tail(b))
    ELSE Ord(SubSeq(a, 1, 1)) < Ord(SubSeq(b, 1, 1))

RECURSIVE Sorted(_)
\* sorted(S) for a set of str
Sorted(S) ==
    IF S = {} THEN << >>
    ELSE LET m == CHOOSE x \in S : \A y \in S \ {x} : StrLess(x, y)
         IN <<m>> \o Sorted(S \ {m})

CleanChar(c) ==
    IF c \in {"/", "-", " "} THEN "_"
    ELSE IF \E i \in 1..26 : SubSeq(UpperChars, i, i) = c
    THEN LET i == CHOOSE j \in 1..26 : SubSeq(UpperChars, j, j) = c
         IN SubSeq(LowerChars, i, i)
    ELSE c

RECURSIVE CleanName(_)
\* engine_name.replace('/', '_').replace('-', '_').replace(' ', '_').lower()
CleanName(s) ==
    IF s = "" THEN "" ELSE CleanChar(SubSeq(s, 1, 1)) \o CleanName(Tail(s))

(***************************************************************************)
(* src/monitor_linux_backup.py : get_gpu_stats_qmassa                      *)
(*                                                                         *)
(* Each section of the extraction maps st = [raised, stats] to the next:   *)
(* raised is an exception (TypeError, AttributeError, KeyError) that the   *)
(* except clauses of line 187-192 turn into (None, message); a section is  *)
(* not run once an earlier one has raised.                                 *)
(***************************************************************************)
Raised == [raised |-> TRUE, stats |-> EmptyDict]
Ok(stats) == [raised |-> FALSE, stats |-> stats]

\* v[0] succeeds: a non-empty list or str (a dict has no key 0: KeyError)
Subscriptable(v) == v.t \in {"list", "str"}

\* `if v and len(v) > 0` raises TypeError: a non-zero number has no len()
LenRaises(v) == IsNumber(v) /\ PyTruthy(v)

\* v[0]
First(v) == IF v.t = "list" THEN v.items[1] ELSE PyStr(SubSeq(v.s, 1, 1))

\* lines 96-101
DeviceInfo(device, stats) ==
    LET s1 == IF DictHas(device.d, "drv_name")
              THEN DictSet(stats, "gpu_driver", DictGet(device.d, "drv_name", PyNull)) ELSE stats
        s2 == IF DictHas(device.d, "dev_type")
              THEN DictSet(s1, "gpu_type", DictGet(device.d, "dev_type", PyNull)) ELSE s1
        s3 == IF DictHas(device.d, "vdr_dev")
              THEN DictSet(s2, "gpu_name", DictGet(device.d, "vdr_dev", PyNull)) ELSE s2
    IN s3

\* lines 107-120
MemInfo(dev_stats, st) ==
    LET stats == st.stats
        mem_info == DictGet(dev_stats.d, "mem_info", PyList(<< >>))
    IN IF st.raised THEN st
       ELSE IF ~PyTruthy(mem_info) THEN Ok(stats)
       ELSE IF LenRaises(mem_info) \/ ~Subscriptable(mem_info) THEN Raised
       ELSE LET mem == First(mem_info)
            IN IF mem.t # "dict" THEN Raised
               ELSE LET smem_total == DictGet(mem.d, "smem_total", PyInt(0))
                        smem_used == DictGet(mem.d, "smem_used", PyInt(0))
                        vram_total == DictGet(mem.d, "vram_total", PyInt(0))
                        vram_used == DictGet(mem.d, "vram_used", PyInt(0))
                        do_smem == PyTruthy(smem_total) \/ PyTruthy(smem_used)
                        do_vram == PyTruthy(vram_total) \/ PyTruthy(vram_used)
                    IN IF \/ do_smem /\ ~(IsNumber(smem_used) /\ IsNumber(smem_total))
                          \/ do_vram /\ ~(IsNumber(vram_used) /\ IsNumber(vram_total))
                       THEN Raised
                       ELSE LET s1 == IF do_smem
                                      THEN DictSet(DictSet(stats, "gpu_smem_used_mb", ToMB(smem_used)),
                                                   "gpu_smem_total_mb", ToMB(smem_total))
                                      ELSE stats
                                s2 == IF do_vram
                                      THEN DictSet(DictSet(s1, "gpu_vram_used_mb", ToMB(vram_used)),
                                                   "gpu_vram_total_mb", ToMB(vram_total))
                                      ELSE s1
                            IN Ok(s2)

\* the engines that count: a non-empty list whose first entry is a number
EngineCounts(usage_array) ==
    /\ usage_array.t = "list"
    /\ usage_array.items # << >>
    /\ IsNumber(usage_array.items[1])

RECURSIVE EngLoop(_, _, _, _)
\* lines 127-137: acc = [total (hundredths), count]
EngLoop(items, total_util, engine_count, stats) ==
    IF items = << >>
    THEN IF engine_count > 0
         THEN DictSet(stats, "gpu_engines_avg_pct", PyFloat(RoundHalfEven(total_util, engine_count)))
         ELSE stats
    ELSE LET engine_name == Head(items)[1]
             usage_array == Head(items)[2]
         IN IF EngineCounts(usage_array)
            THEN LET usage == usage_array.items[1]
                 IN EngLoop(Tail(items), total_util + Centi(usage), engine_count + 1,
                            DictSet(stats, "gpu_engine_" \o CleanName(engine_name) \o "_pct",
                                    Round2(usage)))
            ELSE EngLoop(Tail(items), total_util, engine_count, stats)

\* lines 123-137
EngUsage(dev_stats, st) ==
    LET stats == st.stats
        eng_usage == DictGet(dev_stats.d, "eng_usage", PyDict(<< >>))
    IN IF st.raised THEN st
       ELSE IF ~PyTruthy(eng_usage) THEN Ok(stats)
       ELSE IF eng_usage.t # "dict" THEN Raised
       ELSE Ok(EngLoop(eng_usage.d, 0, 0, stats))

FreqKeys == << <<"act_freq", "gpu_freq_actual_mhz">>, <<"cur_freq", "gpu_freq_requested_mhz">>,
               <<"max_freq", "gpu_freq_max_mhz">>, <<"min_freq", "gpu_freq_min_mhz">> >>

RECURSIVE CopyKeys(_, _, _)
CopyKeys(keys, src, stats) ==
    IF keys = << >> THEN stats
    ELSE CopyKeys(Tail(keys), src,
                  IF DictHas(src, Head(keys)[1])
                  THEN DictSet(stats, Head(keys)[2], DictGet(src, Head(keys)[1], PyNull))
                  ELSE stats)

\* lines 140-153
Freqs(dev_stats, st) ==
    LET stats == st.stats
        freqs == DictGet(dev_stats.d, "freqs", PyList(<< >>))
    IN IF st.raised THEN st
       ELSE IF ~PyTruthy(freqs) THEN Ok(stats)
       ELSE IF LenRaises(freqs) \/ ~Subscriptable(freqs) THEN Raised
       ELSE LET freq_list == First(freqs)
            IN IF ~PyTruthy(freq_list) THEN Ok(stats)
               ELSE IF LenRaises(freq_list) \/ ~Subscriptable(freq_list) THEN Raised
               ELSE LET freq == First(freq_list)
                    IN IF freq.t = "dict" THEN Ok(CopyKeys(FreqKeys, freq.d, stats))
                       ELSE Ok(stats)

\* lines 156-163
Power(dev_stats, st) ==
    LET stats == st.stats
        power == DictGet(dev_stats.d, "power", PyList(<< >>))
    IN IF st.raised THEN st
       ELSE IF ~PyTruthy(power) THEN Ok(stats)
       ELSE IF LenRaises(power) \/ ~Subscriptable(power) THEN Raised
       ELSE LET pwr == First(power)
            IN IF pwr.t # "dict" THEN Ok(stats)
               ELSE LET has_gpu == DictHas(pwr.d, "gpu_cur_power")
                        has_pkg == DictHas(pwr.d, "pkg_cur_power")
                        gpu == DictGet(pwr.d, "gpu_cur_power", PyNull)
                        pkg == DictGet(pwr.d, "pkg_cur_power", PyNull)
                    IN IF (has_gpu /\ ~IsNumber(gpu)) \/ (has_pkg /\ ~IsNumber(pkg))
                       THEN Raised
                       ELSE LET s1 == IF has_gpu THEN DictSet(stats, "gpu_power_w", Round2(gpu))
                                      ELSE stats
                            IN Ok(IF has_pkg THEN DictSet(s1, "gpu_package_power_w", Round2(pkg))
                                  ELSE s1)

\* what `for i, x in enumerate(v)` iterates over: the items of a list, the
\* characters of a str, the keys of a dict
IterItems(v) ==
    CASE v.t = "list" -> v.items
      [] v.t = "str" -> [i \in 1..Len(v.s) |-> PyStr(SubSeq(v.s, i, i))]
      [] v.t = "dict" -> [i \in 1..Len(v.d) |-> PyStr(v.d[i][1])]
      [] OTHER -> << >>

RECURSIVE TempLoop(_, _, _)
\* lines 168-170: i is the 1-based position, enumerate counts from 0
TempLoop(items, i, stats) ==
    IF i > Len(items) THEN stats
    ELSE TempLoop(items, i + 1,
                  IF IsNumber(items[i])
                  THEN DictSet(stats, "gpu_temp_" \o Digits(i - 1) \o "_c", Round1(items[i]))
                  ELSE stats)

RECURSIVE FanLoop(_, _, _)
\* lines 175-177
FanLoop(items, i, stats) ==
    IF i > Len(items) THEN stats
    ELSE FanLoop(items, i + 1,
                 IF IsNumber(items[i])
                 THEN DictSet(stats, "gpu_fan_" \o Digits(i - 1) \o "_rpm", ToInt(items[i]))
                 ELSE stats)

\* lines 166-170
Temps(dev_stats, st) ==
    LET stats == st.stats
        temps == DictGet(dev_stats.d, "temps", PyList(<< >>))
    IN IF st.raised THEN st
       ELSE IF ~PyTruthy(temps) THEN Ok(stats)
       ELSE IF LenRaises(temps) THEN Raised
       ELSE Ok(TempLoop(IterItems(temps), 1, stats))

\* lines 173-177
Fans(dev_stats, st) ==
    LET stats == st.stats
        fans == DictGet(dev_stats.d, "fans", PyList(<< >>))
    IN IF st.raised THEN st
       ELSE IF ~PyTruthy(fans) THEN Ok(stats)
       ELSE IF LenRaises(fans) THEN Raised
       ELSE Ok(FanLoop(IterItems(fans), 1, stats))

\* lines 96-177: the sections in the order of the code
Sections(device, dev_stats) ==
    IF dev_stats.t # "dict" THEN Raised
    ELSE Fans(dev_stats,
           Temps(dev_stats,
             Power(dev_stats,
               Freqs(dev_stats,
                 EngUsage(dev_stats,
                   MemInfo(dev_stats, Ok(DeviceInfo(device, EmptyDict))))))))

\* lines 86-177 on the first device: [raised, stats]; a section that raises
\* ends the extraction
ExtractDevice(device) ==
    IF device.t # "dict" THEN Raised
    ELSE Sections(device, DictGet(device.d, "dev_stats", PyDict(<< >>)))

\* the values get_gpu_stats_qmassa returns: (gpu_stats or None, error or
\* None); removed tells whether os.remove(temp_file) ran (lines 180-183)
QmFailAsMetric(msg) ==
    [gpu_stats |-> << <<"gpu_error", PyStr(msg)>> >>, has_stats |-> TRUE, gpu_error |-> msg,
     has_error |-> TRUE, removed |-> FALSE]

QmFail(msg) ==
    [gpu_stats |-> EmptyDict, has_stats |-> FALSE, gpu_error |-> msg, has_error |-> TRUE,
     removed |-> FALSE]
QmDone(stats) ==
    [gpu_stats |-> stats, has_stats |-> stats # EmptyDict, gpu_error |-> "", has_error |-> FALSE,
     removed |-> TRUE]

RECURSIVE StripWs(_)
\* s.strip()
StripWs(s) ==
    IF s = "" THEN s
    ELSE IF SubSeq(s, 1, 1) \in {" ", "\n", "\t"} THEN StripWs(SubSeq(s, 2, Len(s)))
    ELSE IF SubSeq(s, Len(s), Len(s)) \in {" ", "\n", "\t"} THEN StripWs(SubSeq(s, 1, Len(s) - 1))
    ELSE s

\* a line of the probe's output that json.loads accepts as the data line
IsDataLine(line) == line.kind = "obj" /\ DictHas(line.obj, "devs_state")

\* lines 69-80: the last line that parses and has devs_state, 0 when none
LastDataLine(lines) ==
    IF \E i \in 1..Len(lines) : IsDataLine(lines[i])
    THEN CHOOSE i \in 1..Len(lines) :
            IsDataLine(lines[i]) /\ \A j \in (i + 1)..Len(lines) : ~IsDataLine(lines[j])
    ELSE 0

\* lines 185 and 190-192: return gpu_stats, or the exception's message
Return(st) == IF st.raised THEN QmFail("exception") ELSE QmDone(st.stats)

\* lines 86-185, parsed being the data line's object
Extract(parsed) ==
    LET devs_state == DictGet(parsed, "devs_state", PyList(<< >>))
    IN IF ~PyTruthy(devs_state) THEN QmFail("No devices in qmassa output")
       ELSE IF LenRaises(devs_state) \/ ~Subscriptable(devs_state) THEN QmFail("exception")
       ELSE Return(ExtractDevice(First(devs_state)))

\* get_gpu_stats_qmassa(temp_file): proc is the outcome of subprocess.run,
\* file what is at temp_file after it
get_gpu_stats_qmassa(proc, file) ==
    CASE proc.kind = "timeout" -> QmFail("qmassa timed out")
      [] proc.kind = "oserror" -> QmFail("exception")
      [] OTHER ->
         IF proc.returncode # 0
         THEN QmFail(IF proc.stderr # "" THEN StripWs(proc.stderr)
                     ELSE "Exit code " \o Digits(proc.returncode))
         ELSE IF ~file.exists THEN QmFail("qmassa did not create output file")
         ELSE IF LastDataLine(file.lines) = 0 THEN QmFail("No valid GPU data in qmassa output")
         ELSE Extract(file.lines[LastDataLine(file.lines)].obj)

(***************************************************************************)
(* src/monitor_linux_backup.py : monitor                                   *)
(***************************************************************************)
TempPath == "/tmp/qmassa_1.json"

Exit(rc, stderr) == [kind |-> "exit", returncode |-> rc, stderr |-> stderr]
Timeout == [kind |-> "timeout", returncode |-> 0, stderr |-> ""]

Obj(d) == [kind |-> "obj", obj |-> d]
TextLine == [kind |-> "text"]

\* the NDJSON the probe writes: version string, config, data line
ProbeLines(devs_state) ==
    << TextLine, Obj(<< <<"version", PyStr("1.0")>> >>),
       Obj(<< <<"timestamps", PyList(<< >>)>>, <<"devs_state", devs_state>> >>) >>

Device(info, dev_stats) == PyDict(info \o << <<"dev_stats", PyDict(dev_stats)>> >>)

PowerOnly == << <<"power", PyList(<< PyDict(<< <<"gpu_cur_power", PyFloat(525)>> >>) >>)>> >>

BadPower == << <<"power", PyList(<< PyDict(<< <<"gpu_cur_power", PyStr("n/a")>> >>) >>)>> >>

\* what one run of the probe may do: the process outcome, and the lines it
\* leaves at temp_file when it writes the file
ProbeOutcomes ==
    { [proc |-> Exit(1, "sudo: a password is required\n"), writes |-> FALSE, lines |-> << >>],
      [proc |-> Timeout, writes |-> FALSE, lines |-> << >>],
      [proc |-> Exit(0, ""), writes |-> TRUE,
       lines |-> ProbeLines(PyList(<< Device(<< >>, PowerOnly) >>))],
      [proc |-> Exit(0, ""), writes |-> TRUE,
       lines |-> ProbeLines(PyList(<< Device(<< <<"dev_type", PyStr("Integrated")>>,
                                                <<"vdr_dev", PyStr("Intel")>> >>, PowerOnly) >>))],
      [proc |-> Exit(0, ""), writes |-> TRUE, lines |-> ProbeLines(PyList(<< >>))],
      [proc |-> Exit(0, ""), writes |-> TRUE,
       lines |-> ProbeLines(PyList(<< Device(<< >>, BadPower) >>))],
      [proc |-> Exit(0, ""), writes |-> TRUE,
       lines |-> ProbeLines(PyList(<< Device(<< >>, << >>) >>))] }

\* what get_cpu_temperature() and get_battery_stats() return at a tick: None
\* or the highest reading; {} when there is no battery or psutil raises
Readers ==
    { [cpu_temp |-> PyNull, battery |-> EmptyDict],
      [cpu_temp |-> PyFloat(5500), battery |-> EmptyDict],
      [cpu_temp |-> PyNull,
       battery |-> << <<"battery_percent", PyFloat(8000)>>, <<"battery_plugged", PyInt(1)>> >>] }

\* lines 307-329: the part of the row that does not come from the probe
BaseRow(n, cpu_temp, battery) ==
    LET r0 == << <<"run_id", PyStr(run_id)>>, <<"timestamp", PyStr(Timestamp(n))>>,
                 <<"cpu_percent", PyFloat(1250)>>, <<"memory_used_mb", PyFloat(204800)>>,
                 <<"memory_total_mb", PyFloat(819200)>>, <<"memory_percent", PyFloat(2500)>> >>
        r1 == IF PyTruthy(cpu_temp) THEN DictSet(r0, "cpu_temp_c", cpu_temp) ELSE r0
    IN DictUpdate(r1, battery)

\* where a tick starts: with the probe when the GPU monitor is on
TickStart(gpu) == IF gpu THEN "probe" ELSE "collect"

MonInit ==
    /\ qmassa_error_shown = FALSE
    /\ first_row = TRUE
    /\ all_columns = << >>
    /\ row = EmptyDict

\* lines 49-54: subprocess.run of qmassa, which may write temp_file
MonProbe ==
    /\ script = "monitor_linux_backup.py"
    /\ pc = "probe"
    /\ \E o \in ProbeOutcomes :
         /\ result' = o.proc
         /\ temp_file' = IF o.writes THEN [exists |-> TRUE, lines |-> o.lines] ELSE temp_file
    /\ pc' = "collect"
    /\ UNCHANGED <<dvars, script, tick, run_id, out_file, hist, exit_status, mainvars,
                   has_gpu_monitor, gpu_temp_file, qmassa_error_shown, first_row, all_columns, row>>

\* lines 307-339: build the row; the rest of get_gpu_stats_qmassa runs here
MonCollect ==
    /\ script = "monitor_linux_backup.py"
    /\ pc = "collect"
    /\ \E rd \in Readers, gpu \in {get_gpu_stats_qmassa(result, temp_file)} :
         LET base == BaseRow(tick, rd.cpu_temp, rd.battery)
             use_gpu == has_gpu_monitor /\ gpu_temp_file # ""
             show == use_gpu /\ ~gpu.has_stats /\ gpu.has_error /\ gpu.gpu_error # ""
                     /\ ~qmassa_error_shown
         IN /\ row' = IF use_gpu /\ gpu.has_stats THEN DictUpdate(base, gpu.gpu_stats) ELSE base
            /\ qmassa_error_shown' =
                  IF use_gpu /\ gpu.has_stats THEN FALSE
                  ELSE IF show THEN TRUE ELSE qmassa_error_shown
            /\ temp_file' = IF use_gpu /\ gpu.removed THEN NoFile ELSE temp_file
            /\ hist' = SetLast(hist, [Last(hist) EXCEPT
                                         !.failed = use_gpu /\ gpu.has_error,
                                         !.printed = IF show THEN @ + 1 ELSE @])
    /\ pc' = IF first_row THEN "open_w" ELSE "append"
    /\ UNCHANGED <<dvars, script, tick, run_id, out_file, exit_status, mainvars,
                   has_gpu_monitor, gpu_temp_file, first_row, all_columns, result>>

\* lines 343-344: all_columns = list(row.keys()); open(output_file, 'w')
MonOpenW ==
    /\ script = "monitor_linux_backup.py"
    /\ pc = "open_w"
    /\ all_columns' = DictKeys(row)
    /\ out_file' = OpenW(out_file)
    /\ hist' = SetLast(hist, [Last(hist) EXCEPT !.truncs = @ + 1, !.first = TRUE])
    /\ pc' = "writeheader"
    /\ UNCHANGED <<dvars, script, tick, run_id, exit_status, mainvars,
                   has_gpu_monitor, gpu_temp_file, qmassa_error_shown, first_row, row,
                   result, temp_file>>

\* lines 345-346: writer.writeheader()
MonWriteHeader ==
    /\ script = "monitor_linux_backup.py"
    /\ pc = "writeheader"
    /\ out_file' = WriteLine(out_file, all_columns)
    /\ hist' = SetLast(hist, [Last(hist) EXCEPT !.headers = @ + 1])
    /\ pc' = "writerow"
    /\ UNCHANGED <<dvars, script, tick, run_id, exit_status, mainvars, monvars>>

\* lines 347-348: writer.writerow(row), the file is closed, first_row = False
MonWriteRow ==
    /\ script = "monitor_linux_backup.py"
    /\ pc = "writerow"
    /\ out_file' = WriteLine(out_file, DictWriterRow(all_columns, row))
    /\ hist' = SetLast(hist, [Last(hist) EXCEPT !.rows = @ + 1])
    /\ first_row' = FALSE
    /\ pc' = "sleep"
    /\ UNCHANGED <<dvars, script, tick, run_id, exit_status, mainvars,
                   has_gpu_monitor, gpu_temp_file, qmassa_error_shown, all_columns, row,
                   result, temp_file>>

\* lines 351-354: all_columns.extend(sorted(new_keys))
ExtendColumnsResorted(columns, rowdict) ==
    Sorted(SeqToSet(columns) \cup SeqToSet(DictKeys(rowdict)))

ExtendColumns(columns, rowdict) ==
    LET current_keys == SeqToSet(DictKeys(rowdict))
        new_keys == current_keys \ SeqToSet(columns)
    IN columns \o Sorted(new_keys)

\* lines 350-359: extend the columns, append the row
MonAppend ==
    /\ script = "monitor_linux_backup.py"
    /\ pc = "append"
    /\ all_columns' = ExtendColumns(all_columns, row)
    /\ out_file' = WriteLine(out_file, DictWriterRow(all_columns', row))
    /\ hist' = SetLast(hist, [Last(hist) EXCEPT !.rows = @ + 1])
    /\ pc' = "sleep"
    /\ UNCHANGED <<dvars, script, tick, run_id, exit_status, mainvars,
                   has_gpu_monitor, gpu_temp_file, qmassa_error_shown, first_row, row,
                   result, temp_file>>

\* line 379: time.sleep(interval), then the next iteration
MonSleep ==
    /\ script = "monitor_linux_backup.py"
    /\ pc = "sleep"
    /\ tick < MaxTicks
    /\ tick' = tick + 1
    /\ hist' = Append(hist, HistEntry)
    /\ pc' = TickStart(has_gpu_monitor)
    /\ UNCHANGED <<dvars, script, run_id, out_file, exit_status, mainvars, monvars>>

\* lines 389-395: the finally clause
Finally(file) == IF gpu_temp_file # "" /\ file.exists THEN NoFile ELSE file

\* lines 381-383 and 397: KeyboardInterrupt wherever the loop is, return 0
MonInterrupt ==
    /\ script = "monitor_linux_backup.py"
    /\ pc \in {"probe", "collect", "open_w", "writeheader", "writerow", "append", "sleep"}
    /\ temp_file' = Finally(temp_file)
    /\ pc' = "stopped"
    /\ exit_status' = 0
    /\ UNCHANGED <<dvars, script, tick, run_id, out_file, hist, mainvars,
                   has_gpu_monitor, gpu_temp_file, qmassa_error_shown, first_row, all_columns, row,
                   result>>

\* lines 385-387: open or a write raises IOError, return 1
MonIOError ==
    /\ script = "monitor_linux_backup.py"
    /\ pc \in {"open_w", "writeheader", "writerow", "append"}
    /\ temp_file' = Finally(temp_file)
    /\ pc' = "crashed"
    /\ exit_status' = 1
    /\ UNCHANGED <<dvars, script, tick, run_id, out_file, hist, mainvars,
                   has_gpu_monitor, gpu_temp_file, qmassa_error_shown, first_row, all_columns, row,
                   result>>

MonNext ==
    \/ MonProbe
    \/ MonCollect
    \/ MonOpenW
    \/ MonWriteHeader
    \/ MonWriteRow
    \/ MonAppend
    \/ MonSleep
    \/ MonInterrupt
    \/ MonIOError

(***************************************************************************)
(* Inputs of the probe adapter.                                            *)
(***************************************************************************)
GoodInfo ==
    << <<"drv_name", PyStr("xe")>>, <<"dev_type", PyStr("Integrated")>>,
       <<"vdr_dev", PyStr("Intel")>> >>

\* a snapshot with every section present
GoodStats ==
    << <<"mem_info", PyList(<< PyDict(<< <<"smem_total", PyInt(3145728)>>,
                                         <<"smem_used", PyInt(1572864)>>,
                                         <<"vram_total", PyInt(2097152)>>,
                                         <<"vram_used", PyInt(131072)>> >>) >>)>>,
       <<"eng_usage", PyDict(<< <<"Render/3D", PyList(<< PyFloat(1250) >>)>>,
                                <<"Video-Enhance", PyList(<< PyInt(0) >>)>> >>)>>,
       <<"freqs", PyList(<< PyList(<< PyDict(<< <<"act_freq", PyInt(300)>>,
                                                <<"cur_freq", PyInt(350)>>,
                                                <<"max_freq", PyInt(1200)>>,
                                                <<"min_freq", PyInt(100)>> >>) >>) >>)>>,
       <<"power", PyList(<< PyDict(<< <<"gpu_cur_power", PyFloat(525)>>,
                                      <<"pkg_cur_power", PyFloat(1150)>> >>) >>)>>,
       <<"temps", PyList(<< PyFloat(4557), PyInt(50) >>)>>,
       <<"fans", PyList(<< PyFloat(120070) >>)>> >>

Missing == [t |-> "missing"]

Fields == {"mem_info", "eng_usage", "freqs", "power", "temps", "fans"}

\* what a section may be instead: absent, an empty collection, another type
Variants ==
    { Missing, PyNull, PyInt(0), PyInt(7), PyStr(""), PyStr("x"), PyList(<< >>), PyDict(<< >>),
      PyList(<< PyStr("x") >>), PyList(<< PyList(<< >>) >>), PyList(<< PyDict(<< >>) >>),
      PyDict(<< <<"k", PyInt(1)>> >>) }

\* a key inside a section absent or of another type
InnerVariants(f) ==
    CASE f = "mem_info" ->
           { PyList(<< PyDict(<< <<"smem_total", PyInt(3145728)>> >>) >>),
             PyList(<< PyDict(<< <<"smem_total", PyInt(3145728)>>,
                                 <<"smem_used", PyStr("x")>> >>) >>) }
      [] f = "eng_usage" ->
           { PyDict(<< <<"Render/3D", PyFloat(1250)>> >>),
             PyDict(<< <<"Render/3D", PyList(<< >>)>> >>),
             PyDict(<< <<"Render/3D", PyList(<< PyStr("x") >>)>> >>) }
      [] f = "freqs" ->
           { PyList(<< PyInt(7) >>),
             PyList(<< PyList(<< PyDict(<< <<"act_freq", PyInt(300)>> >>) >>) >>) }
      [] f = "power" ->
           { PyList(<< PyDict(<< <<"pkg_cur_power", PyFloat(1150)>> >>) >>),
             PyList(<< PyDict(<< <<"gpu_cur_power", PyStr("n/a")>> >>) >>) }
      [] OTHER -> { }

Perturbations ==
    { [field |-> f, variant |-> v] : f \in Fields, v \in Variants }
    \cup UNION { { [field |-> f, variant |-> v] : v \in InnerVariants(f) } : f \in Fields }

\* stats with the section replaced, or removed
Perturb(stats, p) ==
    IF p.variant.t = "missing"
    THEN SelectSeq(stats, LAMBDA kv : kv[1] # p.field)
    ELSE DictSet(stats, p.field, p.variant)

SnapshotFile(stats) ==
    [exists |-> TRUE, lines |-> ProbeLines(PyList(<< Device(GoodInfo, stats) >>))]

(***************************************************************************)
(* Specifications.                                                         *)
(***************************************************************************)
\* the runs considered: the script, its arguments, what is at the output
\* path, and whether startup found a usable qmassa (lines 249-278)
Configs ==
    { [script |-> "monitor.py", run_id |-> "", out_file |-> NoFile, gpu |-> FALSE],
      [script |-> "monitor.py", run_id |-> "r1", out_file |-> PriorFile, gpu |-> FALSE],
      [script |-> "monitor_linux_backup.py", run_id |-> "", out_file |-> NoFile, gpu |-> TRUE],
      [script |-> "monitor_linux_backup.py", run_id |-> "r1", out_file |-> PriorFile, gpu |-> TRUE],
      [script |-> "monitor_linux_backup.py", run_id |-> "", out_file |-> NoFile, gpu |-> FALSE] }

IdleBlock == MkBlock("HWiS", << >>)
NoPerturbation == [field |-> "", variant |-> Missing]

LoopInit(c) ==
    /\ script = c.script
    /\ run_id = c.run_id
    /\ out_file = c.out_file
    /\ has_gpu_monitor = c.gpu
    /\ gpu_temp_file = IF c.gpu THEN TempPath ELSE ""
    /\ pc = IF c.script = "monitor.py" THEN "read" ELSE TickStart(c.gpu)
    /\ tick = 1
    /\ hist = << HistEntry >>
    /\ exit_status = -1
    /\ MainInit
    /\ MonInit

DecodeIdle ==
    /\ block = IdleBlock
    /\ hw_ret = HwNone(FALSE)
    /\ d_pc = "idle"

ExtractIdle ==
    /\ perturbed = NoPerturbation
    /\ gpu_ret = QmDone(EmptyDict)
    /\ x_pc = "idle"

Init ==
    /\ DecodeIdle
    /\ ExtractIdle
    /\ result = Exit(0, "")
    /\ temp_file = NoFile
    /\ \E c \in Configs : LoopInit(c)

Next == MainNext \/ MonNext

Spec == Init /\ [][Next]_vars

DecodeInit ==
    /\ block \in Blocks
    /\ hw_ret = HwNone(FALSE)
    /\ d_pc = "call"
    /\ ExtractIdle
    /\ result = Exit(0, "")
    /\ temp_file = NoFile
    /\ LoopInit(CHOOSE c \in Configs : c.script = "monitor.py" /\ c.run_id = "")

\* one call of get_hwinfo_data on the region's content
DecodeCall ==
    /\ d_pc = "call"
    /\ hw_ret' = get_hwinfo_data(block)
    /\ d_pc' = "returned"
    /\ UNCHANGED <<block, perturbed, gpu_ret, x_pc, envvars, mainvars, monvars>>

SpecDecode == DecodeInit /\ [][DecodeCall]_vars

\* the probe has run: a snapshot with one section perturbed, or one of the
\* outcomes of ProbeOutcomes
ExtractInit ==
    /\ DecodeIdle
    /\ gpu_ret = QmDone(EmptyDict)
    /\ x_pc = "call"
    /\ \/ /\ perturbed \in Perturbations
          /\ result = Exit(0, "")
          /\ temp_file = SnapshotFile(Perturb(GoodStats, perturbed))
       \/ /\ perturbed = NoPerturbation
          /\ \E o \in ProbeOutcomes :
                /\ result = o.proc
                /\ temp_file = IF o.writes THEN [exists |-> TRUE, lines |-> o.lines] ELSE NoFile
    /\ LoopInit(CHOOSE c \in Configs : c.script = "monitor_linux_backup.py" /\ c.gpu /\ c.run_id = "")

\* one call of get_gpu_stats_qmassa(temp_file) after the probe has run
ExtractCall ==
    /\ x_pc = "call"
    /\ gpu_ret' = get_gpu_stats_qmassa(result, temp_file)
    /\ temp_file' = IF gpu_ret'.removed THEN NoFile ELSE temp_file
    /\ x_pc' = "returned"
    /\ UNCHANGED <<block, hw_ret, d_pc, perturbed, envvars, mainvars,
                   has_gpu_monitor, gpu_temp_file, qmassa_error_shown, first_row, all_columns, row,
                   result>>

SpecExtract == ExtractInit /\ [][ExtractCall]_vars

(***************************************************************************)
(* Properties.                                                             *)
(***************************************************************************)
Linux == script = "monitor_linux_backup.py"
Windows == script = "monitor.py"

\* the column list and the record of the running script
Schema == IF Windows THEN csv_headers ELSE all_columns
Record == IF Windows THEN row_data ELSE row

\* the tick has written its row and nothing has happened since
RowWritten == pc = "sleep" /\ Last(hist).rows = 1

IndexOf(seq, x) == CHOOSE i \in 1..Len(seq) : seq[i] = x
InSeq(seq, x) == \E i \in 1..Len(seq) : seq[i] = x

StartsWith(str, prefix) == Len(str) >= Len(prefix) /\ SubSeq(str, 1, Len(prefix)) = prefix

\* C1: the column list a recorder loop holds only grows at its end: the list
\* before any step is a prefix of the list after it (csv_headers once it is
\* set, all_columns from the start).
C1_SchemaMonotone ==
    [][ /\ (Windows /\ csv_headers # None) =>
              (csv_headers' # None /\ IsPrefix(csv_headers, csv_headers'))
        /\ Linux => IsPrefix(all_columns, all_columns') ]_vars

\* two keys discovered at a later record stand behind the first record's
\* columns, which are still the header line written at the first record
C1_Witness ==
    /\ Linux /\ pc = "sleep" /\ tick >= 2
    /\ InSeq(all_columns, "gpu_name") /\ InSeq(all_columns, "gpu_type")
    /\ ~InSeq(out_file.lines[1], "gpu_name")
    /\ IsPrefix(out_file.lines[1], all_columns)

\* C2: for every record after the first, in both loops, every key of the
\* record is in the column list and the row written carries the record's
\* value for it.
C2_SchemaExtension ==
    (RowWritten /\ ~Last(hist).first) =>
        \A i \in 1..Len(Record) :
            /\ InSeq(Schema, Record[i][1])
            /\ Len(Last(out_file.lines)) >= IndexOf(Schema, Record[i][1])
            /\ Last(out_file.lines)[IndexOf(Schema, Record[i][1])] = CsvField(Record[i][2])

\* C3: a row written has one field per column of the list at that time: the
\* record's value, or '' where the record lacks the key.
C3_RowComplete ==
    RowWritten =>
        /\ Len(Last(out_file.lines)) = Len(Schema)
        /\ \A i \in 1..Len(Schema) :
              Last(out_file.lines)[i] =
                 IF DictHas(Record, Schema[i])
                 THEN CsvField(DictGet(Record, Schema[i], PyStr("")))
                 ELSE ""

\* a row written on a tick where a column contributed earlier has no value
C3_Witness ==
    /\ RowWritten /\ ~Last(hist).first
    /\ \E i \in 1..Len(Schema) : ~DictHas(Record, Schema[i]) /\ Last(out_file.lines)[i] = ""
    /\ \E i \in 1..Len(Schema) : StartsWith(Schema[i], "gpu_") /\ ~DictHas(Record, Schema[i])

\* C4: once records have been written by monitor, the header line on disk is
\* the whole column list and every row has a field for every column of it.
C4_HeaderListsFinalSchema ==
    (Linux /\ RowWritten) =>
        /\ out_file.lines[1] = all_columns
        /\ \A i \in 2..Len(out_file.lines) : Len(out_file.lines[i]) = Len(all_columns)

\* the state of monitor within a tick: a tick at its end has written one row
\* with the CPU and memory values; after a failed probe the record has no
\* gpu_ key and the row has '' in the gpu_ columns
C5_TickState ==
    Linux =>
      /\ (pc = "sleep") =>
            /\ Last(hist).rows = 1
            /\ Len(out_file.lines) = 1 + tick
            /\ \A k \in {"cpu_percent", "memory_used_mb", "memory_total_mb", "memory_percent"} :
                  /\ DictHas(row, k) /\ InSeq(all_columns, k)
                  /\ Last(out_file.lines)[IndexOf(all_columns, k)] = CsvField(DictGet(row, k, PyNull))
      /\ (Last(hist).failed /\ pc \in {"open_w", "writeheader", "writerow", "append", "sleep"}) =>
            \A i \in 1..Len(row) : ~StartsWith(row[i][1], "gpu_")
      /\ (Last(hist).failed /\ pc = "sleep") =>
            \A i \in 1..Len(all_columns) :
               StartsWith(all_columns[i], "gpu_") => Last(out_file.lines)[i] = ""

\* C5: in monitor every tick that reaches its end has written exactly one
\* row, with the CPU and memory values, whatever the probe and the readers
\* returned; a record built after a failed probe has no gpu_ key and its row
\* has '' in the gpu_ columns; and building the record never ends the loop.
C5_SourceFailureIsolation ==
    [][ /\ C5_TickState'
        /\ (Linux /\ pc = "collect" /\ pc' \notin {"open_w", "append"}) =>
               (pc' = "stopped" /\ exit_status' = 0) ]_vars

\* the probe fails on a tick after GPU columns entered the list
C5_Witness ==
    /\ Linux /\ pc = "sleep" /\ Last(hist).failed
    /\ InSeq(all_columns, "gpu_power_w")
    /\ Last(out_file.lines)[IndexOf(all_columns, "gpu_power_w")] = ""
    /\ Last(out_file.lines)[IndexOf(all_columns, "cpu_percent")] = "12.5"

\* C6: within consecutive ticks on which the source fails, the failure
\* message is printed on at most one tick (both loops).
C6_OneDiagnosticPerFailureRun ==
    \A i, j \in 1..Len(hist) :
        (i < j /\ \A k \in i..j : hist[k].failed) =>
            ~(hist[i].printed > 0 /\ hist[j].printed > 0)

\* C7: when the interrupt has stopped the loop, the tick it arrived in has
\* written nothing, or its row in full (with the header on the first
\* record); the probe file is gone and the status is success.
C7_InterruptKeepsTickWhole ==
    (pc = "stopped") =>
        /\ \/ Last(hist).headers = 0 /\ Last(hist).rows = 0
           \/ Last(hist).rows = 1 /\ (Last(hist).first => Last(hist).headers = 1)
        /\ ~temp_file.exists
        /\ exit_status = 0

Supported(block_) == block_.SizeOfReadingElement \in {460, 320, 252}

\* the bytes left in the region where the i-th element starts
BytesLeft(block_, i) ==
    LET start == block_.OffsetOfReadingSection + (i - 1) * block_.SizeOfReadingElement
    IN IF start >= MapSize THEN 0 ELSE MapSize - start

\* a read of the reading section cannot be completed
ReadFault(block_) ==
    \/ block_.OffsetOfReadingSection > MapSize
    \/ \E i \in 1..block_.NumReadingElements :
          BytesLeft(block_, i) < StructSize(block_.SizeOfReadingElement)

\* C8: a wrong signature, an unsupported element size or a fault while
\* reading the elements makes get_hwinfo_data return None, with no metrics.
C8_NoDataOnBadHeader ==
    (d_pc = "returned" /\
     (~block.mappable \/ block.Signature # "HWiS" \/ ~Supported(block) \/ ReadFault(block))) =>
        (hw_ret.ret = "None" /\ hw_ret.metrics = EmptyDict)

\* an unsupported size in front of an element the filter would keep
C8_Witness ==
    /\ d_pc = "returned" /\ block.mappable /\ block.Signature = "HWiS" /\ ~Supported(block)
    /\ ~ReadFault(block)
    /\ block.NumReadingElements >= 1 /\ Len(block.elems) >= 1
    /\ block.elems[1].szLabelUser = "CPU Package Power"
    /\ hw_ret.ret = "None"

LabelOf(e) == CharArrayValue(e.szLabelUser)
UnitOf(e) == CharArrayValue(e.szUnit)
KeyOf(e) == IF UnitOf(e) = "" THEN LabelOf(e) ELSE LabelOf(e) \o " [" \o UnitOf(e) \o "]"
Kept(e) ==
    e.tReading # 0 /\ \E k \in 1..Len(TARGET_KEYWORDS) : Contains(LabelOf(e), TARGET_KEYWORDS[k])

\* N elements, all of them inside the region
WellFormed(block_) ==
    /\ block_.mappable /\ block_.Signature = "HWiS" /\ Supported(block_)
    /\ block_.NumReadingElements = Len(block_.elems)
    /\ block_.OffsetOfReadingSection + Len(block_.elems) * block_.SizeOfReadingElement <= MapSize

\* the mapping the claim describes: one entry per key of a kept element, with
\* the value of the last kept element that forms the key
ExpectedMetrics(block_) ==
    { <<KeyOf(block_.elems[i]), block_.elems[i].Value>> :
        i \in { n \in 1..Len(block_.elems) :
                  /\ Kept(block_.elems[n])
                  /\ \A m \in (n + 1)..Len(block_.elems) :
                        Kept(block_.elems[m]) => KeyOf(block_.elems[m]) # KeyOf(block_.elems[n]) } }

\* C9: on a block of N well-formed elements of a supported size,
\* get_hwinfo_data returns exactly the mapping of the kept elements, keyed
\* "{label} [{unit}]" or by the bare label, the later element winning a key.
C9_DecodesKeptElements ==
    (d_pc = "returned" /\ WellFormed(block)) =>
        /\ hw_ret.ret = "dict"
        /\ SeqToSet(hw_ret.metrics) = ExpectedMetrics(block)
        /\ Len(hw_ret.metrics) = Cardinality(ExpectedMetrics(block))

\* two kept elements form the same key with different values
C9_Witness ==
    /\ d_pc = "returned" /\ WellFormed(block) /\ Len(block.elems) = 2
    /\ Kept(block.elems[1]) /\ Kept(block.elems[2])
    /\ KeyOf(block.elems[1]) = KeyOf(block.elems[2])
    /\ block.elems[1].Value # block.elems[2].Value
    /\ hw_ret.metrics = << <<"NPU [W]", block.elems[2].Value>> >>
\* the metrics get_gpu_stats_qmassa derives from a section of dev_stats
DerivedFrom(f, key) ==
    CASE f = "mem_info" -> StartsWith(key, "gpu_smem_") \/ StartsWith(key, "gpu_vram_")
      [] f = "eng_usage" -> StartsWith(key, "gpu_engine")
      [] f = "freqs" -> StartsWith(key, "gpu_freq_")
      [] f = "power" -> key \in {"gpu_power_w", "gpu_package_power_w"}
      [] f = "temps" -> StartsWith(key, "gpu_temp_")
      [] f = "fans" -> StartsWith(key, "gpu_fan_")
      [] OTHER -> FALSE

\* what the full snapshot yields
GoodMetrics == SeqToSet(get_gpu_stats_qmassa(Exit(0, ""), SnapshotFile(GoodStats)).gpu_stats)

\* C10: with one section of the snapshot missing, of another type or empty,
\* get_gpu_stats_qmassa reports no failure and returns the full snapshot's
\* metrics except those derived from that section.
C10_DefensiveExtraction ==
    (x_pc = "returned" /\ perturbed.field # "") =>
        /\ ~gpu_ret.has_error
        /\ gpu_ret.has_stats
        /\ \A kv \in GoodMetrics :
              ~DerivedFrom(perturbed.field, kv[1]) => kv \in SeqToSet(gpu_ret.gpu_stats)
        /\ \A kv \in SeqToSet(gpu_ret.gpu_stats) :
              ~DerivedFrom(perturbed.field, kv[1]) => kv \in GoodMetrics

\* C11: when get_gpu_stats_qmassa has returned, on any of its exit paths, the
\* probe's output file does not exist.
C11_TempFileRemoved ==
    (x_pc = "returned") => ~temp_file.exists

\* C12: when get_hwinfo_data has returned, on any of its return paths, the
\* mapping the call opened has been closed by the call.
C12_MappingReleased ==
    (d_pc = "returned" /\ block.mappable) => hw_ret.closed

\* C13: in main, a tick whose read decodes the block but keeps no element is
\* handled as a failed read: the step goes to the sleep, prints the read
\* error, leaves the output file and csv_headers as they were and writes no
\* row; csv_headers is set, the file opened and a row written only on a tick
\* whose mapping has at least one metric.
C13_EmptyMappingIsFailedRead ==
    [][ /\ (Windows /\ pc = "read" /\ pc' # "stopped"
              /\ data'.ret = "dict" /\ data'.metrics = EmptyDict) =>
               /\ pc' = "sleep"
               /\ out_file' = out_file
               /\ csv_headers' = csv_headers
               /\ row_data' = row_data
               /\ Last(hist').printed = Last(hist).printed + 1
               /\ Last(hist').rows = 0
        /\ (Windows /\ pc' \in {"open_w", "writeheader", "append"}) =>
               (data'.ret = "dict" /\ data'.metrics # EmptyDict)
        /\ (Windows /\ Last(hist').rows > 0) => data'.metrics # EmptyDict
        /\ (Windows /\ csv_headers' = None) =>
               /\ out_file' \in {NoFile, PriorFile}
               /\ \A i \in 1..Len(hist') : hist'[i].truncs = 0 /\ hist'[i].rows = 0 ]_vars

\* the second tick of a run decodes a block with no kept element, after a
\* first tick without data: the error is printed and there is still no file
C13_Witness ==
    /\ Windows /\ pc = "sleep" /\ tick = 2
    /\ data.ret = "dict" /\ data.metrics = EmptyDict /\ data.closed
    /\ Last(hist).printed = 1 /\ Last(hist).rows = 0
    /\ csv_headers = None /\ ~out_file.exists

\* the run has opened the output file
Opened == \E i \in 1..Len(hist) : hist[i].first

\* header lines and rows the run has written
HeadersWritten == Cardinality({i \in 1..Len(hist) : hist[i].headers = 1})
RowsWritten == Cardinality({i \in 1..Len(hist) : hist[i].rows = 1})

\* the file once the run has opened it: the run's header line, then one row
\* per record, and nothing of what was at the path before
C14_FileState ==
    Opened =>
       /\ out_file.exists
       /\ Len(out_file.lines) = HeadersWritten + RowsWritten
       /\ HeadersWritten <= 1
       /\ (RowsWritten > 0) => (HeadersWritten = 1)
       /\ (HeadersWritten = 1) =>
             /\ IsPrefix(out_file.lines[1], Schema)
             /\ \A i \in 2..Len(out_file.lines) :
                   Len(out_file.lines[i]) >= Len(out_file.lines[1])

\* C14: in both loops the first record truncates the output file: once the
\* run has opened it the file holds the run's header line, the first
\* record's columns, followed by one row per record of the run; after that
\* lines are only appended, so the header is never rewritten, and a row
\* written by a step that extends the column list has more fields than it.
C14_TruncateThenAppend ==
    [][ /\ C14_FileState'
        /\ (HeadersWritten' = HeadersWritten + 1) => (out_file'.lines = << DictKeys(Record) >>)
        /\ Opened => IsPrefix(out_file.lines, out_file'.lines)
        /\ (Linux /\ pc = "append" /\ pc' = "sleep" /\ all_columns' # all_columns) =>
               Len(Last(out_file'.lines)) > Len(out_file'.lines[1]) ]_vars

\* a run that found a file of an earlier run at the path has written three
\* records, the last one with more fields than the header
C14_Witness ==
    /\ Linux /\ run_id = "r1" /\ pc = "sleep" /\ tick = 3
    /\ Len(out_file.lines) = 4
    /\ out_file.lines[1][1] = "run_id"
    /\ \A i \in 1..Len(out_file.lines) : out_file.lines[i] \notin SeqToSet(PriorFile.lines)
    /\ Len(out_file.lines[4]) > Len(out_file.lines[1])
=============================================================================
